---- MODULE Spec2Model ----
(***************************************************************************)
(* Offline-first photo synchronisation of the mobile app:                  *)
(*   services/storageService.js  - the Local Store over AsyncStorage       *)
(*   services/syncService.js     - SyncService.syncPhotos / uploadPhoto /  *)
(*                                 autoSync (the upload orchestrator)      *)
(*   screens/HomeScreen.js       - the 30 s auto-sync timer                *)
(*   screens/PhotoUploadScreen.js- capture (savePhoto) and manual sync     *)
(* and the read-through complaint cache:                                   *)
(*   services/syncService.js     - ComplaintService.getComplaintById /     *)
(*                                 searchComplaints / getAllComplaints     *)
(*   services/storageService.js  - saveSyncedComplaint, getSyncedComplaints*)
(*   screens/ComplaintsScreen.js - loadComplaints, handleSearch            *)
(*                                                                         *)
(* JavaScript runs single-threaded and cooperatively: a handler runs       *)
(* without interruption up to its next `await`.  Every action below is one *)
(* such uninterrupted stretch of code; AsyncStorage.getItem / setItem,     *)
(* the connectivity query and the HTTP calls are the suspension points.    *)
(*                                                                         *)
(* Time.  `now` is the wall clock in days (new Date() as it is used for    *)
(* syncedAt, last_sync and the 7-day cut-off).  Date.now(), used for the   *)
(* artifact id, is read at millisecond resolution: it is the pair          *)
(* <<now, sub>>, sub being the last reading within the day (NoTime when    *)
(* none was made yet); a reading is the previous one or the next one (the  *)
(* clock need not have advanced between two readings).                     *)
(*                                                                         *)
(* Handlers.  Two callers of syncPhotos exist side by side: "manual"       *)
(* (SyncScreen.handleSync, PhotoUploadScreen.syncNow) and "auto" (the      *)
(* HomeScreen timer through autoSync).  One capture (savePhoto, behind the *)
(* modal camera or gallery picker) is in progress at a time.  A photo is   *)
(* identified in the model by its uri, which is distinct for every capture;*)
(* the program identifies it by its id.                                    *)
(*                                                                         *)
(* Faults.  `diskOk` is whether AsyncStorage calls succeed and net =       *)
(* "ERROR" is a rejected connectivity query.  Spec keeps both healthy;     *)
(* FaultSpec and FairFaultSpec let them fail (SetDisk, ProbeFails).        *)
(* ProbeSpec runs the passes and the timer under every OS network state    *)
(* (metered, WiFi without connection, rejected query).                     *)
(***************************************************************************)
EXTENDS Integers, Sequences, FiniteSets, TLC

\* ------------------------------------------------------------------ bounds
MaxPhotos == 2      \* captures made in one behaviour
MaxNow == 7         \* last day of the clock
MaxFetches == 3     \* ComplaintService calls made in one behaviour
MaxFaultPhotos == 1 \* captures made in one behaviour of FairFaultSpec and
                    \*   of ProbeSpec

\* ------------------------------------------------------- program constants
RetentionDays == 7  \* sevenDaysAgo.setDate(getDate() - 7)

NoTime == -1        \* an absent syncedAt / last_sync

Callers  == {"manual", "auto"}
NetTypes == {"NONE", "WIFI"}

Fetchers == {"f1", "f2"}        \* ComplaintService calls in flight
Keys     == {1, 2}              \* complaint_id values
Payloads == {1, 2}              \* contents the server answers with
Ops      == {"byId", "all", "search"}
Shapes   == {"paged", "array"}  \* response.data.results present or not

VARIABLES
    store,        \* AsyncStorage[offline_photos]: sequence of photo records
    lastSync,     \* AsyncStorage[last_sync]
    isSyncing,    \* SyncService.isSyncing
    now, sub,     \* the clock
    net,          \* OS network state (Network.getNetworkStateAsync): "WIFI"
                  \*   connected over WiFi, "WIFI_DOWN" of type WiFi but not
                  \*   connected, "CELLULAR" connected over a metered
                  \*   network, "NONE" no connection, "ERROR" the query
                  \*   rejects
    serverUp,     \* whether the API answers requests with 2xx
    diskOk,       \* whether AsyncStorage.getItem / setItem calls resolve
                  \*   (FALSE: they reject, e.g. storage full or unreadable)
    pc,           \* pc[p]: where caller p's handler is suspended
    photos,       \* photos[p]: unsyncedPhotos of p's pass
    idx,          \* idx[p]: loop index i (1-based)
    successCount, failCount,
    allPhotos,    \* allPhotos[p]: result of the pending getOfflinePhotos()
    tpc,          \* timer handler (checkAndAutoSync): "idle", or "autoSync"
                  \*   while its call of autoSync is pending
    result,       \* the value a syncPhotos / autoSync call returned to its
                  \*   caller in the step just taken, or (kind "threw") the
                  \*   Local Store function that threw to its caller in it;
                  \*   NoResult otherwise
    cpc,          \* capture handler: "idle" or "write"
    existingData, \* existingData of the running saveOfflinePhoto
    captured,     \* number of captures begun (the uri of the next photo)
    \* history variables (not program state)
    posted,       \* uris whose upload POST completed with 2xx
    snap,         \* snap[p]: uris of the snapshot of p's running pass
    attempts,     \* attempts[p]: uris passed to uploadPhoto in p's running pass
    failed,       \* failed[p]: uris tallied in failCount in p's running pass
    \* complaint cache
    cache,        \* AsyncStorage[synced_complaints]: sequence of complaints
    fpc,          \* fpc[f]: where ComplaintService call f is suspended
    fop,          \* fop[f]: the function called
    fkey,         \* fkey[f]: complaintId argument (0 when there is none)
    fresp,        \* fresp[f]: complaints of the response still to be saved
    fshape,       \* fshape[f]: shape of the response of getAllComplaints
    fi,           \* fi[f]: position in fresp of the complaint being saved
    fbuf,         \* fbuf[f]: existingComplaints of the running save
    cres,         \* value returned by a ComplaintService call in the last step
    fetches,      \* number of ComplaintService calls made
    lastFetched   \* history: lastFetched[k] is the content of complaint k
                  \*   that saveSyncedComplaint was last given, out of a 2xx
                  \*   response (0: none yet)

vars == <<store, lastSync, isSyncing, now, sub, net, serverUp, diskOk, pc,
          photos,
          idx, successCount, failCount, allPhotos, tpc, result, cpc,
          existingData, captured, posted, snap, attempts, failed,
          cache, fpc, fop, fkey, fresp, fshape, fi, fbuf, cres, fetches,
          lastFetched>>

localVars == <<photos, idx, successCount, failCount, allPhotos>>
histVars  == <<snap, attempts, failed>>
envVars   == <<now, sub, net, serverUp, diskOk>>
capVars   == <<cpc, existingData, captured>>
cacheVars == <<cache, fpc, fop, fkey, fresp, fshape, fi, fbuf, cres, fetches,
               lastFetched>>
photoVars == <<store, lastSync, isSyncing, now, sub, net, diskOk, pc, photos,
               idx,
               successCount, failCount, allPhotos, tpc, result, cpc,
               existingData, captured, posted, snap, attempts, failed>>

Uris == 1..MaxPhotos

\* ---------------------------------------------------------------- helpers
InStore(u)   == \E k \in 1..Len(store) : store[k].uri = u
SyncedIn(s, u) == \E k \in 1..Len(s) : s[k].uri = u /\ s[k].synced
UrisOf(s)    == {s[k].uri : k \in 1..Len(s)}

\* storageService.getOfflinePhotos: the stored photos, or [] when getItem
\* rejects (the catch block of lines 38-41).
getOfflinePhotos == IF diskOk THEN store ELSE <<>>

\* getUnsyncedPhotos returning the unsynced photos newest first.
getUnsyncedPhotosNewestFirst(all) ==
    LET f == SelectSeq(all, LAMBDA ph : ~ph.synced)
    IN  [i \in 1..Len(f) |-> f[Len(f) + 1 - i]]

\* storageService.getUnsyncedPhotos: allPhotos.filter(photo => !photo.synced)
getUnsyncedPhotos(all) == SelectSeq(all, LAMBDA ph : ~ph.synced)

\* markPhotoAsSynced's map:
\*   photo.id === photoId ? {...photo, synced: true, syncedAt: now} : photo
MarkMap(all, photoId, t) ==
    [k \in 1..Len(all) |->
        IF all[k].id = photoId
        THEN [all[k] EXCEPT !.synced = TRUE, !.syncedAt = t]
        ELSE all[k]]

\* CleanupKeep pruning by capture date when the photo was never synced.
CleanupKeepByAge(ph, t) ==
    IF ~ph.synced THEN ph.id[1] > t - RetentionDays
    ELSE ph.syncedAt > t - RetentionDays

\* CleanupKeep with a retention window that is one day short.
CleanupKeepShortWindow(ph, t) ==
    IF ~ph.synced THEN TRUE ELSE ph.syncedAt > t - (RetentionDays - 1)

\* cleanupSyncedPhotos' filter:
\*   if (!photo.synced) return true; return syncedDate > sevenDaysAgo
CleanupKeep(ph, t) ==
    IF ~ph.synced THEN TRUE ELSE ph.syncedAt > t - RetentionDays

CleanupFilter(all, t) == SelectSeq(all, LAMBDA ph : CleanupKeep(ph, t))

\* networkState.isConnected and networkState.type of the OS state n.
IsConnected(n) == n \in {"WIFI", "CELLULAR"}
NetworkType(n) ==
    IF n \in {"WIFI", "WIFI_DOWN"} THEN "WIFI"
    ELSE IF n = "CELLULAR" THEN "CELLULAR" ELSE "NONE"

\* isConnectedToWiFi testing the type of the network only.
isConnectedToWiFiTypeOnly == net # "ERROR" /\ NetworkType(net) = "WIFI"

\* isConnectedToWiFi: isConnected && type === WIFI, and false when the query
\* rejects (the catch block of lines 15-18).
isConnectedToWiFi ==
    net # "ERROR" /\ IsConnected(net) /\ NetworkType(net) = "WIFI"

\* What a ComplaintService call returns: success, the offline flag and data
\* (the complaints carried; empty when the object has no data).
NoCRes == [fetcher |-> "none", op |-> "none", key |-> 0, success |-> FALSE,
           offline |-> FALSE, data |-> <<>>]

CRes(f, ok, off, d) ==
    [fetcher |-> f, op |-> fop[f], key |-> fkey[f], success |-> ok,
     offline |-> off, data |-> d]

NoResult == [caller |-> "none", kind |-> "none", successCount |-> 0, failCount |-> 0]

Result(p, k, s, f) == [caller |-> p, kind |-> k, successCount |-> s, failCount |-> f]

\* Local Store function fn rethrew a storage error to its caller.
Threw(fn) == Result(fn, "threw", 0, 0)

\* ------------------------------------------------------------------- Init
Init ==
    /\ store = <<>>
    /\ lastSync = NoTime
    /\ isSyncing = FALSE
    /\ now = 0 /\ sub = NoTime
    /\ net = "NONE"
    /\ serverUp = FALSE
    /\ diskOk = TRUE
    /\ pc = [p \in Callers |-> "idle"]
    /\ photos = [p \in Callers |-> <<>>]
    /\ idx = [p \in Callers |-> 0]
    /\ successCount = [p \in Callers |-> 0]
    /\ failCount = [p \in Callers |-> 0]
    /\ allPhotos = [p \in Callers |-> <<>>]
    /\ tpc = "idle"
    /\ result = NoResult
    /\ cpc = "idle"
    /\ existingData = <<>>
    /\ captured = 0
    /\ posted = {}
    /\ snap = [p \in Callers |-> {}]
    /\ attempts = [p \in Callers |-> <<>>]
    /\ failed = [p \in Callers |-> {}]
    /\ cache = <<>>
    /\ fpc = [f \in Fetchers |-> "idle"]
    /\ fop = [f \in Fetchers |-> "none"]
    /\ fkey = [f \in Fetchers |-> 0]
    /\ fresp = [f \in Fetchers |-> <<>>]
    /\ fshape = [f \in Fetchers |-> "none"]
    /\ fi = [f \in Fetchers |-> 0]
    /\ fbuf = [f \in Fetchers |-> <<>>]
    /\ cres = NoCRes
    /\ fetches = 0
    /\ lastFetched = [k \in Keys |-> 0]

\* ------------------------------------------------------------ environment
\* Time passes: a period of at least one day less than the retention window,
\* up to day MaxNow (shorter periods leave every retention decision as it is).
\* No handler is suspended across such a period (a pass lasts at most 65 s
\* per item: the 5 s and 60 s request timeouts of uploadPhoto).
Tick ==
    /\ cpc = "idle"
    /\ tpc = "idle"
    /\ \A p \in Callers : pc[p] = "idle"
    /\ \E t \in (now + RetentionDays - 1)..MaxNow : now' = t
    /\ sub' = NoTime
    /\ result' = NoResult
    /\ UNCHANGED <<store, lastSync, isSyncing, net, serverUp, diskOk, pc,
                   localVars, tpc, capVars, posted, histVars>>
    /\ UNCHANGED cacheVars

\* The OS network state changes.
SetNet ==
    /\ \E n \in NetTypes \ {net} : net' = n
    /\ result' = NoResult
    /\ UNCHANGED <<store, lastSync, isSyncing, now, sub, serverUp, diskOk, pc,
                   localVars, tpc, capVars, posted, histVars>>
    /\ UNCHANGED cacheVars

\* The API becomes reachable / unreachable (timeouts, rejections).
SetServer ==
    /\ serverUp' = ~serverUp
    /\ result' = NoResult
    /\ cres' = NoCRes
    /\ UNCHANGED <<cache, fpc, fop, fkey, fresp, fshape, fi, fbuf, fetches,
                   lastFetched>>
    /\ UNCHANGED <<store, lastSync, isSyncing, now, sub, net, diskOk, pc,
                   localVars, tpc, capVars, posted, histVars>>

\* ---------------------------------------------------------------- capture
\* saveOfflinePhoto up to the resolution of `await this.getOfflinePhotos()`.
CaptureRead ==
    /\ cpc = "idle"
    /\ captured < MaxPhotos
    /\ existingData' = getOfflinePhotos
    /\ captured' = captured + 1
    /\ cpc' = "write"
    /\ result' = NoResult
    /\ UNCHANGED <<store, lastSync, isSyncing, envVars, pc, localVars, tpc,
                   posted, histVars>>
    /\ UNCHANGED cacheVars

\* The photoData objects a caller can hand to saveOfflinePhoto for the photo
\* with uri u: savePhoto supplies {uri, fileName, latitude, longitude}; a
\* caller may also supply a synced key.
PhotoDatas(u) == {[uri |-> u], [uri |-> u, synced |-> TRUE]}

\* newPhoto of saveOfflinePhoto (lines 14-20): {id, ...photoData, synced:
\* false}, a later key overriding an earlier one; t is the Date.now() reading.
NewPhoto(t, photoData) ==
    [synced |-> FALSE] @@ photoData @@ [id |-> t, syncedAt |-> NoTime]

\* saveOfflinePhoto from the read's resolution on: build newPhoto and
\* setItem([...existingData, newPhoto]); when setItem rejects, the catch
\* block rethrows (lines 27-30).
CaptureWrite ==
    /\ cpc = "write"
    /\ \E s \in {sub, sub + 1} \ {NoTime} :
          /\ sub' = s
          /\ IF diskOk
             THEN /\ \E photoData \in PhotoDatas(captured) :
                        store' = Append(existingData,
                                        NewPhoto(<<now, s>>, photoData))
                  /\ result' = NoResult
             ELSE /\ result' = Threw("saveOfflinePhoto")
                  /\ UNCHANGED store
    /\ existingData' = <<>>
    /\ cpc' = "idle"
    /\ UNCHANGED <<lastSync, isSyncing, now, net, serverUp, diskOk, pc,
                   localVars, tpc, captured, posted, histVars>>
    /\ UNCHANGED cacheVars

\* ------------------------------------------------------------- syncPhotos
ResetLocals(p) ==
    /\ photos' = [photos EXCEPT ![p] = <<>>]
    /\ idx' = [idx EXCEPT ![p] = 0]
    /\ successCount' = [successCount EXCEPT ![p] = 0]
    /\ failCount' = [failCount EXCEPT ![p] = 0]
    /\ allPhotos' = [allPhotos EXCEPT ![p] = <<>>]

\* Finish without the finally clause: the guard stays set.
FinishGuardKept(p, r) ==
    /\ result' = r
    /\ pc' = [pc EXCEPT ![p] = "idle"]
    /\ UNCHANGED isSyncing
    /\ ResetLocals(p)
    /\ snap' = [snap EXCEPT ![p] = {}]
    /\ attempts' = [attempts EXCEPT ![p] = <<>>]
    /\ failed' = [failed EXCEPT ![p] = {}]

\* `return r` from inside the try block: the finally clause clears the guard.
Finish(p, r) ==
    /\ result' = r
    /\ pc' = [pc EXCEPT ![p] = "idle"]
    /\ isSyncing' = FALSE
    /\ ResetLocals(p)
    /\ snap' = [snap EXCEPT ![p] = {}]
    /\ attempts' = [attempts EXCEPT ![p] = <<>>]
    /\ failed' = [failed EXCEPT ![p] = {}]

\* Enter with the guard test moved inside the try block, so that the finally
\* clause of a rejected call clears the flag of the running pass.
EnterGuardInTry(p) ==
    IF isSyncing
    THEN /\ result' = Result(p, "busy", 0, 0)
         /\ isSyncing' = FALSE
         /\ UNCHANGED <<pc, histVars>>
    ELSE /\ isSyncing' = TRUE
         /\ result' = NoResult
         /\ pc' = [pc EXCEPT ![p] = "wifi"]
         /\ UNCHANGED histVars

\* syncPhotos from its call to its first await (lines 34-43): the guard test,
\* the early return outside the try block, and the setting of the guard.
Enter(p) ==
    IF isSyncing
    THEN /\ result' = Result(p, "busy", 0, 0)
         /\ UNCHANGED <<pc, isSyncing, histVars>>
    ELSE /\ isSyncing' = TRUE
         /\ result' = NoResult
         /\ pc' = [pc EXCEPT ![p] = "wifi"]
         /\ UNCHANGED histVars

\* SyncScreen.handleSync / PhotoUploadScreen.syncNow call syncPhotos.
ManualSync ==
    /\ Enter("manual")
    /\ UNCHANGED <<store, lastSync, envVars, localVars, tpc, capVars,
                   posted>>
    /\ UNCHANGED cacheVars

\* CheckWiFi with the no-WiFi return placed after the post-loop bookkeeping,
\* so that an aborted call still updates the cursor.
CheckWiFiCursorOnAbort(p) ==
    /\ pc[p] = "wifi"
    /\ IF ~isConnectedToWiFi
       THEN /\ Finish(p, Result(p, "nowifi", 0, 0))
            /\ lastSync' = now
       ELSE /\ pc' = [pc EXCEPT ![p] = "list"]
            /\ result' = NoResult
            /\ UNCHANGED <<isSyncing, localVars, histVars, lastSync>>
    /\ UNCHANGED <<store, envVars, tpc, capVars, posted>>
    /\ UNCHANGED cacheVars

\* `await this.isConnectedToWiFi()` resolves (lines 43-46).
CheckWiFi(p) ==
    /\ pc[p] = "wifi"
    /\ IF ~isConnectedToWiFi
       THEN Finish(p, Result(p, "nowifi", 0, 0))
       ELSE /\ pc' = [pc EXCEPT ![p] = "list"]
            /\ result' = NoResult
            /\ UNCHANGED <<isSyncing, localVars, histVars>>
    /\ UNCHANGED <<store, lastSync, envVars, tpc, capVars, posted>>
    /\ UNCHANGED cacheVars

\* `await storageService.getUnsyncedPhotos()` resolves (lines 48-68): the
\* snapshot, the empty-queue return, and the first iteration up to
\* uploadPhoto's first await.
GetUnsynced(p) ==
    /\ pc[p] = "list"
    /\ LET unsynced == getUnsyncedPhotos(getOfflinePhotos) IN
       IF Len(unsynced) = 0
       THEN Finish(p, Result(p, "empty", 0, 0))
       ELSE /\ photos' = [photos EXCEPT ![p] = unsynced]
            /\ idx' = [idx EXCEPT ![p] = 1]
            /\ snap' = [snap EXCEPT ![p] = UrisOf(unsynced)]
            /\ attempts' = [attempts EXCEPT ![p] = <<unsynced[1].uri>>]
            /\ pc' = [pc EXCEPT ![p] = "reach"]
            /\ result' = NoResult
            /\ UNCHANGED <<isSyncing, successCount, failCount, allPhotos,
                           failed>>
    /\ UNCHANGED <<store, lastSync, envVars, tpc, capVars, posted>>
    /\ UNCHANGED cacheVars

\* End of one loop iteration (line 59): next item, or leave the loop and
\* call updateLastSync.
NextItem(p) ==
    IF idx[p] < Len(photos[p])
    THEN /\ idx' = [idx EXCEPT ![p] = idx[p] + 1]
         /\ attempts' = [attempts EXCEPT
                            ![p] = Append(attempts[p], photos[p][idx[p] + 1].uri)]
         /\ pc' = [pc EXCEPT ![p] = "reach"]
    ELSE /\ pc' = [pc EXCEPT ![p] = "cursor"]
         /\ UNCHANGED <<idx, attempts>>

\* ItemFailed without the per-item try/catch: the first failure leaves the
\* loop.
ItemFailedAbortsBatch(p) ==
    /\ failCount' = [failCount EXCEPT ![p] = failCount[p] + 1]
    /\ failed' = [failed EXCEPT ![p] = failed[p] \cup {photos[p][idx[p]].uri}]
    /\ allPhotos' = [allPhotos EXCEPT ![p] = <<>>]
    /\ pc' = [pc EXCEPT ![p] = "cursor"]
    /\ UNCHANGED <<photos, idx, successCount, snap, attempts>>

\* The catch block of the loop body (lines 74-77).
ItemFailed(p) ==
    /\ failCount' = [failCount EXCEPT ![p] = failCount[p] + 1]
    /\ failed' = [failed EXCEPT ![p] = failed[p] \cup {photos[p][idx[p]].uri}]
    /\ allPhotos' = [allPhotos EXCEPT ![p] = <<>>]
    /\ NextItem(p)
    /\ UNCHANGED <<photos, successCount, snap>>

\* Reach with the failure of the reachability GET only logged: the upload
\* goes on to the POST.
ReachFailureIgnored(p) ==
    /\ pc[p] = "reach"
    /\ pc' = [pc EXCEPT ![p] = "post"]
    /\ result' = NoResult
    /\ UNCHANGED <<localVars, histVars>>
    /\ UNCHANGED <<store, lastSync, isSyncing, envVars, tpc, capVars, posted>>
    /\ UNCHANGED cacheVars

\* uploadPhoto: the reachability GET resolves or rejects (lines 102-114).
Reach(p) ==
    /\ pc[p] = "reach"
    /\ IF serverUp
       THEN /\ pc' = [pc EXCEPT ![p] = "post"]
            /\ UNCHANGED <<localVars, histVars>>
       ELSE ItemFailed(p)
    /\ result' = NoResult
    /\ UNCHANGED <<store, lastSync, isSyncing, envVars, tpc, capVars, posted>>
    /\ UNCHANGED cacheVars

\* uploadPhoto: the POST resolves (2xx) or rejects (lines 151-164); on
\* success markPhotoAsSynced is called and awaits getOfflinePhotos.
Post(p) ==
    /\ pc[p] = "post"
    /\ IF serverUp
       THEN /\ posted' = posted \cup {photos[p][idx[p]].uri}
            /\ pc' = [pc EXCEPT ![p] = "markRead"]
            /\ UNCHANGED <<localVars, histVars>>
       ELSE /\ ItemFailed(p)
            /\ UNCHANGED posted
    /\ result' = NoResult
    /\ UNCHANGED <<store, lastSync, isSyncing, envVars, tpc, capVars>>
    /\ UNCHANGED cacheVars

\* markPhotoAsSynced: `await this.getOfflinePhotos()` resolves.
MarkRead(p) ==
    /\ pc[p] = "markRead"
    /\ allPhotos' = [allPhotos EXCEPT ![p] = getOfflinePhotos]
    /\ pc' = [pc EXCEPT ![p] = "markWrite"]
    /\ result' = NoResult
    /\ UNCHANGED <<store, lastSync, isSyncing, envVars, photos, idx,
                   successCount, failCount, tpc, capVars, posted,
                   histVars>>
    /\ UNCHANGED cacheVars

\* MarkWrite without the catch blocks of syncPhotos: the error rethrown by
\* markPhotoAsSynced leaves syncPhotos (the finally clause clears the guard).
MarkWriteErrorEscapes(p) ==
    /\ pc[p] = "markWrite"
    /\ IF diskOk
       THEN /\ LET photoId == photos[p][idx[p]].id
                   updatedPhotos == MarkMap(allPhotos[p], photoId, now)
               IN  store' = updatedPhotos
            /\ successCount' = [successCount EXCEPT ![p] = successCount[p] + 1]
            /\ allPhotos' = [allPhotos EXCEPT ![p] = <<>>]
            /\ NextItem(p)
            /\ result' = NoResult
            /\ UNCHANGED <<photos, failCount, snap, failed, isSyncing>>
       ELSE /\ Finish(p, Threw("syncPhotos"))
            /\ UNCHANGED store
    /\ UNCHANGED <<lastSync, envVars, tpc, capVars, posted>>
    /\ UNCHANGED cacheVars

\* markPhotoAsSynced: map and setItem (lines 70-73 of storageService), then
\* successCount++ and the end of the iteration; when setItem rejects,
\* markPhotoAsSynced rethrows (lines 75-78) into the catch block of the loop
\* body.
MarkWrite(p) ==
    /\ pc[p] = "markWrite"
    /\ IF diskOk
       THEN /\ LET photoId == photos[p][idx[p]].id
                   updatedPhotos == MarkMap(allPhotos[p], photoId, now)
               IN  store' = updatedPhotos
            /\ successCount' = [successCount EXCEPT ![p] = successCount[p] + 1]
            /\ allPhotos' = [allPhotos EXCEPT ![p] = <<>>]
            /\ NextItem(p)
            /\ result' = NoResult
            /\ UNCHANGED <<photos, failCount, snap, failed>>
       ELSE /\ ItemFailed(p)
            /\ result' = Threw("markPhotoAsSynced")
            /\ UNCHANGED store
    /\ UNCHANGED <<lastSync, isSyncing, envVars, tpc, capVars, posted>>
    /\ UNCHANGED cacheVars

\* storageService.updateLastSync (line 80); a rejected setItem is swallowed.
UpdateLastSync(p) ==
    /\ pc[p] = "cursor"
    /\ lastSync' = IF diskOk THEN now ELSE lastSync
    /\ pc' = [pc EXCEPT ![p] = "cleanRead"]
    /\ result' = NoResult
    /\ UNCHANGED <<store, isSyncing, envVars, localVars, tpc, capVars, posted, histVars>>
    /\ UNCHANGED cacheVars

\* cleanupSyncedPhotos: `await this.getOfflinePhotos()` resolves.
CleanRead(p) ==
    /\ pc[p] = "cleanRead"
    /\ allPhotos' = [allPhotos EXCEPT ![p] = getOfflinePhotos]
    /\ pc' = [pc EXCEPT ![p] = "cleanWrite"]
    /\ result' = NoResult
    /\ UNCHANGED <<store, lastSync, isSyncing, envVars, photos, idx,
                   successCount, failCount, tpc, capVars, posted,
                   histVars>>
    /\ UNCHANGED cacheVars

\* cleanupSyncedPhotos: filter and setItem (a rejected setItem is
\* swallowed); then syncPhotos returns its result (lines 83-94).
CleanWrite(p) ==
    /\ pc[p] = "cleanWrite"
    /\ store' = IF diskOk THEN CleanupFilter(allPhotos[p], now) ELSE store
    /\ Finish(p, Result(p, "done", successCount[p], failCount[p]))
    /\ UNCHANGED <<lastSync, envVars, tpc, capVars, posted>>
    /\ UNCHANGED cacheVars

\* ------------------------------------------------------ auto-sync trigger
\* AutoStatus with the test of the queue depth left out of line 42.
AutoStatusAnyDepth ==
    /\ tpc = "idle"
    /\ LET hasWiFi == isConnectedToWiFi
       IN  tpc' = IF hasWiFi THEN "autoSync" ELSE "idle"
    /\ result' = NoResult
    /\ UNCHANGED <<store, lastSync, isSyncing, envVars, pc, localVars, capVars,
                   posted, histVars>>
    /\ UNCHANGED cacheVars

\* HomeScreen.checkAndAutoSync: the timer fires, getSyncStatus resolves with
\* the number of unsynced photos and the probe, and the test of line 42 is
\* made (the reads of getSyncStatus change nothing and nothing else is
\* decided on them).
AutoStatus ==
    /\ tpc = "idle"
    /\ LET unsyncedCount == Len(getUnsyncedPhotos(getOfflinePhotos))
           hasWiFi == isConnectedToWiFi
       IN  tpc' = IF hasWiFi /\ unsyncedCount > 0 THEN "autoSync" ELSE "idle"
    /\ result' = NoResult
    /\ UNCHANGED <<store, lastSync, isSyncing, envVars, pc, localVars, capVars,
                   posted, histVars>>
    /\ UNCHANGED cacheVars

\* SyncService.autoSync: its own probe resolves; syncPhotos is called.  The
\* timer may fire again while the pass this call starts is running.
AutoSync ==
    /\ tpc = "autoSync"
    /\ tpc' = "idle"
    /\ IF isConnectedToWiFi
       THEN Enter("auto")
       ELSE /\ result' = Result("auto", "autoNoWifi", 0, 0)
            /\ UNCHANGED <<pc, isSyncing, histVars>>
    /\ UNCHANGED <<store, lastSync, envVars, localVars, capVars,
                   posted>>
    /\ UNCHANGED cacheVars

\* ------------------------------------------------------------------- Next
Next ==
    \/ Tick
    \/ SetNet
    \/ SetServer
    \/ CaptureRead
    \/ CaptureWrite
    \/ ManualSync
    \/ AutoStatus
    \/ AutoSync
    \/ \E p \in Callers : CheckWiFi(p)
    \/ \E p \in Callers : GetUnsynced(p)
    \/ \E p \in Callers : Reach(p)
    \/ \E p \in Callers : Post(p)
    \/ \E p \in Callers : MarkRead(p)
    \/ \E p \in Callers : MarkWrite(p)
    \/ \E p \in Callers : UpdateLastSync(p)
    \/ \E p \in Callers : CleanRead(p)
    \/ \E p \in Callers : CleanWrite(p)

Spec == Init /\ [][Next]_vars

\* Scheduling.  Every pending storage, connectivity or HTTP call settles (the
\* requests carry timeouts), so a suspended handler is always resumed, and
\* the setInterval timer of HomeScreen keeps firing.  User actions (manual
\* sync, a new capture) and the environment are under no obligation.
Fairness ==
    /\ \A p \in Callers :
          /\ WF_vars(CheckWiFi(p))
          /\ WF_vars(GetUnsynced(p))
          /\ WF_vars(Reach(p))
          /\ WF_vars(Post(p))
          /\ WF_vars(MarkRead(p))
          /\ WF_vars(MarkWrite(p))
          /\ WF_vars(UpdateLastSync(p))
          /\ WF_vars(CleanRead(p))
          /\ WF_vars(CleanWrite(p))
    /\ WF_vars(CaptureWrite)
    /\ WF_vars(AutoStatus)
    /\ WF_vars(AutoSync)

FairSpec == Spec /\ Fairness

\* ------------------------------------------------------------------ faults
\* AsyncStorage starts or stops rejecting its calls.
SetDisk ==
    /\ diskOk' = ~diskOk
    /\ result' = NoResult
    /\ UNCHANGED <<store, lastSync, isSyncing, now, sub, net, serverUp, pc,
                   localVars, tpc, capVars, posted, histVars>>
    /\ UNCHANGED cacheVars

\* Network.getNetworkStateAsync starts rejecting (until the network state
\* changes again).
ProbeFails ==
    /\ net # "ERROR"
    /\ net' = "ERROR"
    /\ result' = NoResult
    /\ UNCHANGED <<store, lastSync, isSyncing, now, sub, serverUp, diskOk, pc,
                   localVars, tpc, capVars, posted, histVars>>
    /\ UNCHANGED cacheVars

\* The photo machine with storage and connectivity-query faults.
FaultNext ==
    \/ SetNet
    \/ SetServer
    \/ SetDisk
    \/ ProbeFails
    \/ CaptureRead
    \/ CaptureWrite
    \/ ManualSync
    \/ \E p \in Callers : CheckWiFi(p)
    \/ \E p \in Callers : GetUnsynced(p)
    \/ \E p \in Callers : Reach(p)
    \/ \E p \in Callers : Post(p)
    \/ \E p \in Callers : MarkRead(p)
    \/ \E p \in Callers : MarkWrite(p)
    \/ \E p \in Callers : UpdateLastSync(p)
    \/ \E p \in Callers : CleanRead(p)
    \/ \E p \in Callers : CleanWrite(p)

FaultSpec == Init /\ [][FaultNext]_vars

\* The next step of p's pass: the call it awaits settles.
PassStep(p) ==
    \/ CheckWiFi(p)
    \/ GetUnsynced(p)
    \/ Reach(p)
    \/ Post(p)
    \/ MarkRead(p)
    \/ MarkWrite(p)
    \/ UpdateLastSync(p)
    \/ CleanRead(p)
    \/ CleanWrite(p)

\* Every pending storage, connectivity or HTTP call of a pass settles, by
\* resolving or by rejecting.
PassFairness == \A p \in Callers : WF_vars(PassStep(p))

\* A capture begins, within the bound on captures of FairFaultSpec.
CaptureReadBounded ==
    /\ captured < MaxFaultPhotos
    /\ CaptureRead

FairFaultNext ==
    \/ SetNet
    \/ SetServer
    \/ SetDisk
    \/ ProbeFails
    \/ CaptureReadBounded
    \/ CaptureWrite
    \/ ManualSync
    \/ \E p \in Callers : CheckWiFi(p)
    \/ \E p \in Callers : GetUnsynced(p)
    \/ \E p \in Callers : Reach(p)
    \/ \E p \in Callers : Post(p)
    \/ \E p \in Callers : MarkRead(p)
    \/ \E p \in Callers : MarkWrite(p)
    \/ \E p \in Callers : UpdateLastSync(p)
    \/ \E p \in Callers : CleanRead(p)
    \/ \E p \in Callers : CleanWrite(p)

FairFaultSpec == Init /\ [][FairFaultNext]_vars /\ PassFairness

\* ------------------------------------------------------ connectivity probe
\* The network becomes a metered connection, or a WiFi network that is not
\* connected.
SetNetOther ==
    /\ \E n \in {"CELLULAR", "WIFI_DOWN"} \ {net} : net' = n
    /\ result' = NoResult
    /\ UNCHANGED <<store, lastSync, isSyncing, now, sub, serverUp, diskOk, pc,
                   localVars, tpc, capVars, posted, histVars>>
    /\ UNCHANGED cacheVars

\* The photo machine and the timer under every OS network state.
ProbeNext ==
    \/ SetNet
    \/ SetNetOther
    \/ ProbeFails
    \/ SetServer
    \/ CaptureReadBounded
    \/ CaptureWrite
    \/ ManualSync
    \/ AutoStatus
    \/ AutoSync
    \/ \E p \in Callers : CheckWiFi(p)
    \/ \E p \in Callers : GetUnsynced(p)
    \/ \E p \in Callers : Reach(p)
    \/ \E p \in Callers : Post(p)
    \/ \E p \in Callers : MarkRead(p)
    \/ \E p \in Callers : MarkWrite(p)
    \/ \E p \in Callers : UpdateLastSync(p)
    \/ \E p \in Callers : CleanRead(p)
    \/ \E p \in Callers : CleanWrite(p)

ProbeSpec == Init /\ [][ProbeNext]_vars

\* -------------------------------------------------------- complaint cache
Complaint(k, v) == [complaint_id |-> k, data |-> v]

RECURSIVE KeySeq(_)
\* The keys of S in ascending order.
KeySeq(S) ==
    IF S = {} THEN <<>>
    ELSE LET m == CHOOSE x \in S : \A y \in S : x <= y
         IN  <<m>> \o KeySeq(S \ {m})

\* The lists of complaints a listing or a search can answer with.
BulkLists ==
    UNION {{[i \in 1..Len(KeySeq(S)) |-> Complaint(KeySeq(S)[i], g[KeySeq(S)[i]])]
               : g \in [S -> Payloads]} : S \in SUBSET Keys}

\* existingComplaints.findIndex(c => c.complaint_id === complaint.complaint_id)
FindIndex(cs, k) ==
    IF \E i \in 1..Len(cs) : cs[i].complaint_id = k
    THEN CHOOSE i \in 1..Len(cs) :
            /\ cs[i].complaint_id = k
            /\ \A j \in 1..(i - 1) : cs[j].complaint_id # k
    ELSE 0

\* Upsert without the findIndex branch: the complaint is always pushed.
UpsertAlwaysPush(cs, c) == Append(cs, c)

\* saveSyncedComplaint: replace at index, or push.
Upsert(cs, c) ==
    LET index == FindIndex(cs, c.complaint_id) IN
    IF index > 0 THEN [cs EXCEPT ![index] = c] ELSE Append(cs, c)

\* FindById without the comparison of the key: the first stored snapshot.
FindByIdFirst(cs, k) ==
    IF Len(cs) > 0 THEN <<cs[1]>> ELSE <<>>

\* storageService.getComplaintById: complaints.find(...), as a list of at
\* most one complaint.
FindById(cs, k) ==
    IF FindIndex(cs, k) > 0 THEN <<cs[FindIndex(cs, k)]>> ELSE <<>>

\* A ComplaintService call returns r.
FReturn(f, r) ==
    /\ cres' = r
    /\ fpc' = [fpc EXCEPT ![f] = "idle"]
    /\ fop' = [fop EXCEPT ![f] = "none"]
    /\ fkey' = [fkey EXCEPT ![f] = 0]
    /\ fresp' = [fresp EXCEPT ![f] = <<>>]
    /\ fshape' = [fshape EXCEPT ![f] = "none"]
    /\ fi' = [fi EXCEPT ![f] = 0]
    /\ fbuf' = [fbuf EXCEPT ![f] = <<>>]

\* A ComplaintService function is called and issues its api.get.
StartFetch(f) ==
    /\ fpc[f] = "idle"
    /\ fetches < MaxFetches
    /\ fetches' = fetches + 1
    /\ \E o \in Ops :
          /\ fop' = [fop EXCEPT ![f] = o]
          /\ \E k \in Keys :
                fkey' = [fkey EXCEPT ![f] = IF o = "byId" THEN k ELSE 0]
    /\ fpc' = [fpc EXCEPT ![f] = "get"]
    /\ cres' = NoCRes
    /\ UNCHANGED <<cache, fresp, fshape, fi, fbuf, lastFetched>>
    /\ UNCHANGED <<photoVars, serverUp>>

\* api.get resolves with 2xx.  getComplaintById (lines 207-210) and
\* getAllComplaints (lines 250-257) go on to saveSyncedComplaint;
\* searchComplaints (lines 234-238) returns.
GetResolves(f) ==
    /\ fpc[f] = "get"
    /\ serverUp
    /\ \/ /\ fop[f] = "byId"
          /\ \E v \in Payloads :
                fresp' = [fresp EXCEPT ![f] = <<Complaint(fkey[f], v)>>]
          /\ fi' = [fi EXCEPT ![f] = 1]
          /\ fpc' = [fpc EXCEPT ![f] = "saveRead"]
          /\ cres' = NoCRes
          /\ UNCHANGED <<fop, fkey, fshape, fbuf, lastFetched>>
       \/ /\ fop[f] = "all"
          /\ \E list \in BulkLists, sh \in Shapes :
                IF sh = "paged" /\ Len(list) > 0
                THEN /\ fresp' = [fresp EXCEPT ![f] = list]
                     /\ fshape' = [fshape EXCEPT ![f] = sh]
                     /\ fi' = [fi EXCEPT ![f] = 1]
                     /\ fpc' = [fpc EXCEPT ![f] = "saveRead"]
                     /\ cres' = NoCRes
                     /\ UNCHANGED <<fop, fkey, fbuf, lastFetched>>
                ELSE /\ FReturn(f, CRes(f, TRUE, FALSE, list))
                     /\ UNCHANGED lastFetched
       \/ /\ fop[f] = "search"
          /\ \E list \in BulkLists : FReturn(f, CRes(f, TRUE, FALSE, list))
          /\ UNCHANGED lastFetched
    /\ UNCHANGED <<cache, fetches>>
    /\ UNCHANGED <<photoVars, serverUp>>

\* api.get rejects.  getComplaintById (lines 213-217) and getAllComplaints
\* (lines 260-262) go on to read the stored snapshots; searchComplaints
\* (lines 239-244) returns the failure.
GetRejects(f) ==
    /\ fpc[f] = "get"
    /\ ~serverUp
    /\ IF fop[f] = "search"
       THEN FReturn(f, CRes(f, FALSE, FALSE, <<>>))
       ELSE /\ fpc' = [fpc EXCEPT ![f] = "fallback"]
            /\ cres' = NoCRes
            /\ UNCHANGED <<fop, fkey, fresp, fshape, fi, fbuf>>
    /\ UNCHANGED <<cache, fetches, lastFetched>>
    /\ UNCHANGED <<photoVars, serverUp>>

\* saveSyncedComplaint: `await this.getSyncedComplaints()` resolves.
SaveRead(f) ==
    /\ fpc[f] = "saveRead"
    /\ fbuf' = [fbuf EXCEPT ![f] = cache]
    /\ fpc' = [fpc EXCEPT ![f] = "saveWrite"]
    /\ cres' = NoCRes
    /\ UNCHANGED <<cache, fop, fkey, fresp, fshape, fi, fetches, lastFetched>>
    /\ UNCHANGED <<photoVars, serverUp>>

\* saveSyncedComplaint: upsert and setItem (lines 105-113); then the next
\* complaint of the listing is saved, or the call returns its success.
SaveWrite(f) ==
    /\ fpc[f] = "saveWrite"
    /\ cache' = Upsert(fbuf[f], fresp[f][fi[f]])
    /\ IF fi[f] < Len(fresp[f])
       THEN /\ fi' = [fi EXCEPT ![f] = fi[f] + 1]
            /\ fbuf' = [fbuf EXCEPT ![f] = <<>>]
            /\ fpc' = [fpc EXCEPT ![f] = "saveRead"]
            /\ cres' = NoCRes
            /\ UNCHANGED <<fop, fkey, fresp, fshape>>
       ELSE FReturn(f, CRes(f, TRUE, FALSE, fresp[f]))
    /\ lastFetched' = [lastFetched EXCEPT ![fresp[f][fi[f]].complaint_id] =
                                             fresp[f][fi[f]].data]
    /\ UNCHANGED fetches
    /\ UNCHANGED <<photoVars, serverUp>>

\* The stored snapshots are read after a failed api.get: getComplaintById
\* (lines 217-227) returns the snapshot of its key or the failure,
\* getAllComplaints (lines 262-271) all the snapshots or the failure.
Fallback(f) ==
    /\ fpc[f] = "fallback"
    /\ LET offlineData == IF fop[f] = "byId" THEN FindById(cache, fkey[f])
                          ELSE cache
       IN  IF Len(offlineData) > 0
           THEN FReturn(f, CRes(f, TRUE, TRUE, offlineData))
           ELSE FReturn(f, CRes(f, FALSE, fop[f] = "byId", <<>>))
    /\ UNCHANGED <<cache, fetches, lastFetched>>
    /\ UNCHANGED <<photoVars, serverUp>>

CacheNext ==
    \/ SetServer
    \/ \E f \in Fetchers : StartFetch(f)
    \/ \E f \in Fetchers : GetResolves(f)
    \/ \E f \in Fetchers : GetRejects(f)
    \/ \E f \in Fetchers : SaveRead(f)
    \/ \E f \in Fetchers : SaveWrite(f)
    \/ \E f \in Fetchers : Fallback(f)

CacheSpec == Init /\ [][CacheNext]_vars

\* ================================================================= claims
PassPcs == {"wifi", "list", "reach", "post", "markRead", "markWrite",
            "cursor", "cleanRead", "cleanWrite"}

Running(p) == pc[p] \in PassPcs

\* The step is a call of syncPhotos by caller p.
Invokes(p) ==
    \/ p = "manual" /\ ManualSync
    \/ p = "auto" /\ AutoSync /\ isConnectedToWiFi

\* ---- C1
OnePass == Cardinality({p \in Callers : Running(p)}) <= 1

RejectedWhileRunning(p) ==
    (Invokes(p) /\ isSyncing) =>
        /\ result' = Result(p, "busy", 0, 0)
        /\ isSyncing'
        /\ UNCHANGED <<store, lastSync, posted, pc, localVars, histVars>>

\* C1: at most one syncPhotos pass is active in every reachable state (the
\* guard is set in the step that tests it, before the first await), the flag
\* is set while a pass is active, and a call made while the flag is set
\* returns the "already in progress" failure in that same step, leaving the
\* store, the cursor, the uploads, the running pass and the flag untouched.
C1_SinglePass ==
    /\ [](OnePass /\ ((\E p \in Callers : Running(p)) => isSyncing))
    /\ [][\A p \in Callers : RejectedWhileRunning(p)]_vars

\* A call has just been rejected while the other caller's pass is suspended
\* in its upload loop.
C1_Witness ==
    /\ result.kind = "busy"
    /\ isSyncing
    /\ \E q \in Callers \ {result.caller} : pc[q] \in {"reach", "post", "markWrite"}

\* ---- C5
\* The step is caller p's syncPhotos returning on the WiFi precondition.
AbortsOnWiFi(p) == pc[p] = "wifi" /\ ~isConnectedToWiFi /\ pc'[p] # "wifi"

\* C5: when the probe does not report WiFi, the call returns the "WiFi
\* required" failure and changes nothing: the stored photos (hence the
\* pending list), the cursor and the set of uploads are as before, no item was
\* attempted and the call ends without reaching the loop or the cleanup.  The
\* step that entered the pass (setting the guard) changed none of them either.
C5_NoWiFiNoMutation ==
    [][\A p \in Callers :
        /\ AbortsOnWiFi(p) =>
              /\ result' = Result(p, "nowifi", 0, 0)
              /\ pc'[p] = "idle"
              /\ attempts[p] = <<>>
              /\ UNCHANGED <<store, lastSync, posted>>
              /\ getUnsyncedPhotos(store') = getUnsyncedPhotos(store)
        /\ (pc[p] # "wifi" /\ pc'[p] = "wifi") =>
              UNCHANGED <<store, lastSync, posted>>]_vars

\* A call has just aborted on the precondition with photos pending and a
\* cursor already set by an earlier pass.
C5_Witness ==
    /\ result.kind = "nowifi"
    /\ Len(getUnsyncedPhotos(store)) > 0
    /\ lastSync # NoTime

SnapshotUris(p) == [k \in 1..Len(photos[p]) |-> photos[p][k].uri]

\* C10: a pass that has taken a non-empty snapshot attempts its items in
\* order, one after the other; while it is in the loop the items attempted are
\* exactly the first idx items of the snapshot, and when it has left the loop
\* every item of the snapshot has been attempted exactly once, whatever the
\* outcomes and the network state.
C10_BatchRunsToCompletion ==
    \A p \in Callers :
        /\ pc[p] \in {"reach", "post", "markRead", "markWrite"} =>
              /\ idx[p] \in 1..Len(photos[p])
              /\ attempts[p] = SubSeq(SnapshotUris(p), 1, idx[p])
        /\ pc[p] \in {"cursor", "cleanRead", "cleanWrite"} =>
              /\ attempts[p] = SnapshotUris(p)
              /\ successCount[p] + failCount[p] = Len(photos[p])

\* A pass has left the loop after two items, the first of which failed, with
\* WiFi lost since the pass started.
C10_Witness ==
    \E p \in Callers :
        /\ pc[p] = "cursor"
        /\ Len(photos[p]) = 2
        /\ photos[p][1].uri \in failed[p]
        /\ net # "WIFI"

\* ---- C2
\* The step is caller p's pass returning its result after the cleanup.
Completes(p) == pc[p] = "cleanWrite" /\ pc'[p] = "idle"

\* C2: when a pass that ran with WiFi returns, every photo of its snapshot is
\* either stored with synced = true, or stored with synced = false and was
\* tallied in failCount.
C2_AllAccounted ==
    [][\A p \in Callers :
        Completes(p) =>
            \A u \in snap[p] :
                \/ SyncedIn(store', u)
                \/ /\ \E k \in 1..Len(store') : store'[k].uri = u /\ ~store'[k].synced
                   /\ u \in failed[p]]_vars

\* ---- C3
\* C3: in every reachable state, a stored photo has synced = true only if an
\* upload POST of that photo completed with a 2xx status before.
C3_SyncedOnlyIfPosted ==
    \A k \in 1..Len(store) : store[k].synced => store[k].uri \in posted

\* ---- C6
\* C6: no step turns a stored photo's synced flag from true to false while the
\* photo stays in the store.
C6_SyncedMonotonic ==
    [][\A u \in Uris :
        (SyncedIn(store, u) /\ \E k \in 1..Len(store') : store'[k].uri = u)
            => SyncedIn(store', u)]_vars

\* ---- C9
\* The step is the setItem of saveOfflinePhoto.
CaptureWrites == cpc = "write" /\ cpc' = "idle"

\* The step is the setItem of p's markPhotoAsSynced or cleanupSyncedPhotos.
PassWrites(p) == pc[p] \in {"markWrite", "cleanWrite"} /\ pc'[p] # pc[p]

\* C9: interleaving a capture with the store writes of a running pass loses
\* nothing, as in a serial order of the calls: the write of saveOfflinePhoto
\* keeps every synced mark that is in the store, and the writes of
\* markPhotoAsSynced and cleanupSyncedPhotos keep every unsynced photo that
\* is in the store (so a photo captured meanwhile stays).
C9_NoLostUpdate ==
    [][/\ CaptureWrites =>
             \A u \in Uris : SyncedIn(store, u) => SyncedIn(store', u)
       /\ \A p \in Callers : PassWrites(p) =>
             \A k \in 1..Len(store) :
                 ~store[k].synced => \E j \in 1..Len(store') : store'[j].uri = store[k].uri]_vars

\* ---- C4
\* From some point on the probe reports WiFi and the API answers with 2xx.
EventuallyOnline == <>[](net = "WIFI" /\ serverUp)

\* C4: if from some point on WiFi is reported and requests succeed, then
\* every photo that saveOfflinePhoto has appended to the store is eventually
\* stored with synced = true (passes keep being triggered by the timer).
C4_EventualDelivery ==
    EventuallyOnline =>
        \A u \in Uris : InStore(u) ~> SyncedIn(store, u)

\* ---- C11
\* C11: when a pass returns, every photo whose upload failed in it is still
\* stored, with synced = false and no syncedAt, so that getUnsyncedPhotos
\* returns it to the next pass.
C11_FailedStaysPending ==
    [][\A p \in Callers :
        Completes(p) =>
            \A u \in failed[p] :
                /\ \E k \in 1..Len(store') :
                       /\ store'[k].uri = u
                       /\ ~store'[k].synced
                       /\ store'[k].syncedAt = NoTime
                /\ \E k \in 1..Len(getUnsyncedPhotos(store')) :
                       getUnsyncedPhotos(store')[k].uri = u]_vars

\* ---- C12
\* The step is caller p's pass returning after it passed the WiFi test.
ReturnsPastWiFi(p) == pc[p] \in PassPcs \ {"wifi"} /\ pc'[p] = "idle"

\* C12: every pass that passed the WiFi test returns from the write of
\* cleanupSyncedPhotos, after updateLastSync has set the cursor to the time of
\* the pass, whatever the outcomes of its items and also when its snapshot
\* was empty.
C12_CursorThenCleanup ==
    [][\A p \in Callers :
        ReturnsPastWiFi(p) =>
            /\ pc[p] = "cleanWrite"
            /\ lastSync' = now
            /\ store' = CleanupFilter(allPhotos[p], now)]_vars

\* ---- C13
\* C13: when a pass over a non-empty snapshot returns, successCount is the
\* number of snapshot photos whose upload succeeded and failCount the number
\* of those whose upload failed; exactly the former are stored with
\* synced = true, and the snapshot photos that getUnsyncedPhotos returns
\* afterwards are exactly the latter.
C13_ExactTally ==
    [][\A p \in Callers :
        Completes(p) =>
            LET ok == snap[p] \ failed[p] IN
            /\ result'.successCount = Cardinality(ok)
            /\ result'.failCount = Cardinality(failed[p])
            /\ \A u \in snap[p] : SyncedIn(store', u) <=> u \in ok
            /\ UrisOf(getUnsyncedPhotos(store')) \cap snap[p] = failed[p]]_vars

\* ---- C14
\* The keys of the object that syncPhotos / autoSync returns, by return
\* statement: lines 36, 45 and 176 {success, message}; line 51 {success,
\* message, count}; lines 83-88 {success, message, successCount, failCount}.
ResultFields(r) ==
    CASE r.kind = "done"  -> {"success", "message", "successCount", "failCount"}
      [] r.kind = "empty" -> {"success", "message", "count"}
      [] r.kind \in {"busy", "nowifi", "autoNoWifi"} -> {"success", "message"}
      [] OTHER -> {}

\* C14: the result of every pass that passed the WiFi test carries success,
\* message, successCount and failCount, whatever the size of its snapshot.
C14_ResultHasFourFields ==
    [][\A p \in Callers :
        ReturnsPastWiFi(p) =>
            {"success", "message", "successCount", "failCount"}
                \subseteq ResultFields(result')]_vars

\* ---- C15
\* The step is a step of caller p's pass after it has taken its snapshot.
StepAfterSnapshot(p) ==
    /\ pc[p] \in PassPcs \ {"wifi", "list"}
    /\ pc'[p] # pc[p] \/ idx'[p] # idx[p]

\* C15: a pass takes its snapshot once (getUnsyncedPhotos at line 48: all the
\* unsynced photos of the store) and uploads photos of that snapshot only; a
\* photo that is stored unsynced and is not in the snapshot (one appended by
\* saveOfflinePhoto after the read) is kept as it is, unsynced, by every
\* later step of the pass, so that the next pass finds it in its snapshot.
C15_LateWaitsForNextPass ==
    /\ [](\A p \in Callers :
             \A k \in 1..Len(attempts[p]) : attempts[p][k] \in snap[p])
    /\ [][\A p \in Callers :
            /\ (pc[p] = "list" /\ pc'[p] = "reach") =>
                   snap'[p] = UrisOf(getUnsyncedPhotos(store))
            /\ StepAfterSnapshot(p) =>
                   \A k \in 1..Len(store) :
                       (store[k].uri \notin snap[p] /\ ~store[k].synced) =>
                           \E j \in 1..Len(store') : store'[j] = store[k]]_vars

\* ---- C16
\* The step is the return of call f with data fetched from the server.
ReturnsRemote(f) == fpc[f] \in {"get", "saveWrite"} /\ fpc'[f] = "idle" /\ cres'.success

\* The step is the return of call f after its api.get failed, no other
\* ComplaintService call being in flight.
ReturnsOffline(f) ==
    /\ fpc[f] = "fallback" /\ fpc'[f] = "idle"
    /\ \A g \in Fetchers \ {f} : fpc[g] = "idle"

\* C16: a getComplaintById whose api.get succeeded returns the response, not
\* flagged offline, and the stored snapshot of its key is that response; a
\* getComplaintById whose api.get failed returns, flagged offline, the content
\* of its key that was last fetched and saved, when there is one.
C16_ReadThrough ==
    [][\A f \in Fetchers :
        /\ (ReturnsRemote(f) /\ fop[f] = "byId") =>
              /\ cres'.data = fresp[f]
              /\ ~cres'.offline
              /\ FindById(cache', fkey[f]) = fresp[f]
        /\ (ReturnsOffline(f) /\ fop[f] = "byId" /\ lastFetched[fkey[f]] # 0) =>
              /\ cres'.success /\ cres'.offline
              /\ cres'.data = <<Complaint(fkey[f], lastFetched[fkey[f]])>>]_vars

\* ---- C17
\* C17: a getComplaintById whose api.get failed, for a key of which no
\* snapshot was ever saved, returns the failure without data; and the data of
\* a result returned after a failed api.get is never that of another key.
C17_NotFoundWhenNeverCached ==
    [][\A f \in Fetchers :
        (fpc[f] = "fallback" /\ fpc'[f] = "idle" /\ fop[f] = "byId") =>
            /\ lastFetched[fkey[f]] = 0 =>
                  ~cres'.success /\ cres'.data = <<>>
            /\ \A i \in 1..Len(cres'.data) :
                  cres'.data[i].complaint_id = fkey[f]]_vars

\* A lookup of a key that was never saved has just failed while the snapshot
\* of another key is stored.
C17_Witness ==
    /\ cres.op = "byId"
    /\ ~cres.success /\ cres.offline
    /\ lastFetched[cres.key] = 0
    /\ \E i \in 1..Len(cache) : cache[i].complaint_id # cres.key

\* ---- C18
\* The step is the return of call f after its api.get failed.
ReturnsAfterFailure(f) ==
    /\ fpc'[f] = "idle"
    /\ \/ fpc[f] = "fallback"
       \/ fpc[f] = "get" /\ ~cres'.success

\* C18: for each of getComplaintById, getAllComplaints and searchComplaints,
\* when the call returns data fetched from the server every complaint of that
\* data is stored as snapshot, and when it returns after a failed api.get
\* while snapshots are stored it returns stored snapshots, flagged offline.
C18_CacheWrapsAllThree ==
    [][\A f \in Fetchers :
        /\ ReturnsRemote(f) =>
              \A i \in 1..Len(cres'.data) :
                  FindById(cache', cres'.data[i].complaint_id) = <<cres'.data[i]>>
        /\ (ReturnsAfterFailure(f) /\ fop[f] # "byId" /\ Len(cache) > 0) =>
              /\ cres'.success /\ cres'.offline
              /\ Len(cres'.data) > 0
              /\ \A i \in 1..Len(cres'.data) :
                     \E j \in 1..Len(cache) : cache[j] = cres'.data[i]]_vars

\* ---- C19
\* C19: when getAllComplaints returns a listing fetched from the server, a
\* snapshot is stored of every complaint of the listing; and a getComplaintById whose
\* api.get failed, for a key whose snapshot was saved before, returns a
\* snapshot of that key flagged offline, not the failure.
C19_ListingFeedsLookup ==
    [][\A f \in Fetchers :
        /\ (ReturnsRemote(f) /\ fop[f] = "all") =>
              \A i \in 1..Len(cres'.data) :
                  Len(FindById(cache', cres'.data[i].complaint_id)) = 1
        /\ (ReturnsOffline(f) /\ fop[f] = "byId" /\ lastFetched[fkey[f]] # 0) =>
              /\ cres'.success /\ cres'.offline
              /\ Len(cres'.data) = 1
              /\ cres'.data[1].complaint_id = fkey[f]]_vars

\* ---- C20
HasPending == \E k \in 1..Len(store) : ~store[k].synced

\* The step starts a pass of caller p.
StartsPass(p) == pc[p] = "idle" /\ pc'[p] # "idle"

\* C20: the timer handler calls autoSync exactly when the store holds an
\* unsynced photo and the network is WiFi; a pass starts only by a call of
\* syncPhotos made while the guard is clear (for the timer: from autoSync,
\* whose own probe reported WiFi); and a call of syncPhotos by the timer or by
\* the user made while the guard is set returns the "already in progress"
\* failure and leaves every pass, the store, the uploads and the guard as
\* they were.
C20_AutoSyncTrigger ==
    [][/\ AutoStatus => (tpc' = "autoSync" <=> (net = "WIFI" /\ HasPending))
       /\ \A p \in Callers :
            /\ StartsPass(p) => (Invokes(p) /\ ~isSyncing)
            /\ (Invokes(p) /\ isSyncing) =>
                  /\ result'.kind = "busy"
                  /\ \A q \in Callers : ~StartsPass(q)
                  /\ UNCHANGED <<pc, localVars, store, posted, isSyncing>>]_vars

\* A timer tick has just been rejected while the pass started by an earlier
\* tick is suspended in its upload loop.
C20_Witness ==
    /\ result = Result("auto", "busy", 0, 0)
    /\ tpc = "idle"
    /\ isSyncing
    /\ pc["auto"] \in {"reach", "post", "markWrite"}

\* ---- C21
\* C21: no Local Store function throws to its caller: in no step does
\* saveOfflinePhoto or markPhotoAsSynced (or any other function of
\* storageService) end by rethrowing a storage error.
C21_NoStoreCallThrows == result.kind # "threw"

\* ---- C22
\* C22: a write of saveOfflinePhoto, markPhotoAsSynced or cleanupSyncedPhotos
\* keeps every photo that is stored when it is made (but for the synced
\* photos past the retention window, which the cleanup prunes), also when the
\* read that preceded it inside the same call had failed.
C22_ReadFaultKeepsData ==
    [][(CaptureWrites \/ \E p \in Callers : PassWrites(p)) =>
          \A k \in 1..Len(store) :
              ~(store[k].synced /\ store[k].syncedAt <= now - RetentionDays) =>
                  \E j \in 1..Len(store') : store'[j].uri = store[k].uri]_vars

\* ---- C23
\* The success flag of the object that syncPhotos returns: true at lines 51
\* and 84, false at lines 36, 45 and 91.
ResultSuccess(r) == r.kind \in {"empty", "done"}

\* The step ends a call of syncPhotos by p: the call is rejected by the guard,
\* or p's pass ends.
EndsCall(p) == (Invokes(p) /\ isSyncing) \/ (Running(p) /\ pc'[p] = "idle")

\* C23: every step that ends a call of syncPhotos hands its caller an object
\* with a success flag (nothing is thrown); the flag is false when the call
\* was rejected by the guard or did not find WiFi (a connectivity query that
\* rejects counts as no WiFi); and a storage error thrown by
\* markPhotoAsSynced does not end the call: the item is tallied as failed and
\* the pass goes on.
C23_AlwaysStructuredResult ==
    [][\A p \in Callers :
        /\ EndsCall(p) =>
              /\ result'.caller = p
              /\ "success" \in ResultFields(result')
              /\ ((Invokes(p) /\ isSyncing) \/ AbortsOnWiFi(p)) =>
                     ~ResultSuccess(result')
        /\ (pc[p] = "markWrite" /\ pc'[p] # "markWrite" /\ ~diskOk) =>
              /\ result' = Threw("markPhotoAsSynced")
              /\ pc'[p] \in {"reach", "cursor"}
              /\ failCount'[p] = failCount[p] + 1]_vars

\* A pass has just returned its tally after markPhotoAsSynced threw for a
\* photo whose upload had succeeded (the storage still rejecting its calls).
C23_Witness ==
    /\ result.kind = "done"
    /\ result.failCount = 1
    /\ ~diskOk
    /\ \E k \in 1..Len(store) : store[k].uri \in posted /\ ~store[k].synced

\* ---- C24
\* C24: the store that cleanupSyncedPhotos writes is the store it read
\* without the photos that are synced with a syncedAt more than RetentionDays
\* days before the time of the cleanup, the other photos in their order.
C24_PrunesExactlyOld ==
    [][\A p \in Callers :
        (pc[p] = "cleanWrite" /\ pc'[p] # "cleanWrite") =>
            store' = SelectSeq(allPhotos[p],
                         LAMBDA ph : ~(ph.synced /\ now - ph.syncedAt > RetentionDays))]_vars

\* ---- C25
\* The step is the setItem of p's markPhotoAsSynced.
MarkWrites(p) == pc[p] = "markWrite" /\ pc'[p] # "markWrite"

\* C25: a photo enters the store with synced = false, whatever photoData was
\* supplied, and the synced flag of a stored photo turns from false to true
\* only in a step that is the write of markPhotoAsSynced of a running pass:
\* never in a step of capture, of cleanupSyncedPhotos, of the complaint cache,
\* or of a syncPhotos call that is rejected or aborts on the WiFi test.
C25_SyncedSetByPassOnly ==
    [][\A u \in Uris :
        /\ (~InStore(u) /\ \E k \in 1..Len(store') : store'[k].uri = u) =>
              ~SyncedIn(store', u)
        /\ (InStore(u) /\ ~SyncedIn(store, u) /\ SyncedIn(store', u)) =>
              \E p \in Callers : MarkWrites(p)]_vars

\* ---- C26
LoopPcs == {"reach", "post", "markRead", "markWrite"}

\* C26: the snapshot of a pass lists the pending photos in the order of their
\* capture; while the pass is in its loop exactly one item is in progress,
\* item idx, and the idx - 1 items before it are all finished (each tallied
\* as success or as failure); item idx is past its POST when
\* markPhotoAsSynced runs for it; and at most one caller is in uploadPhoto.
C26_OneItemAtATime ==
    /\ Cardinality({p \in Callers : pc[p] \in {"reach", "post"}}) <= 1
    /\ \A p \in Callers :
          /\ \A i, j \in 1..Len(photos[p]) :
                i < j => photos[p][i].uri < photos[p][j].uri
          /\ pc[p] \in LoopPcs =>
                /\ successCount[p] + failCount[p] = idx[p] - 1
                /\ Len(attempts[p]) = idx[p]
                /\ attempts[p][idx[p]] = photos[p][idx[p]].uri
          /\ pc[p] \in {"markRead", "markWrite"} =>
                photos[p][idx[p]].uri \in posted

\* A pass is awaiting the POST of its second item, the first item having
\* been uploaded and marked.
C26_Witness ==
    \E p \in Callers :
        /\ pc[p] = "post"
        /\ idx[p] = 2
        /\ successCount[p] = 1
        /\ SyncedIn(store, photos[p][1].uri)

\* ---- C27
\* The step is the settling of the reachability GET of p's current item.
PreCheckSettles(p) ==
    pc[p] = "reach" /\ (pc'[p] # "reach" \/ idx'[p] # idx[p])

\* C27: a pass enters its loop only after the WiFi test succeeded; the POST
\* of an item is issued only in the step in which that item's reachability
\* GET resolved; an upload completes only for the item whose POST is pending;
\* and when the GET of an item fails, no POST is issued for it, the item is
\* tallied in failCount, and the pass goes on to the next item (or, after the
\* last one, to updateLastSync).
C27_PreCheckBeforeUpload ==
    [][\A p \in Callers :
        /\ (pc[p] # "list" /\ pc'[p] = "list") =>
              (pc[p] = "wifi" /\ net = "WIFI")
        /\ (pc[p] # "post" /\ pc'[p] = "post") =>
              (pc[p] = "reach" /\ serverUp /\ idx'[p] = idx[p])
        /\ (photos[p] # <<>> /\ photos[p][idx[p]].uri \in posted' \ posted) =>
              pc[p] = "post"
        /\ (PreCheckSettles(p) /\ ~serverUp) =>
              /\ posted' = posted
              /\ failCount'[p] = failCount[p] + 1
              /\ successCount'[p] = successCount[p]
              /\ photos[p][idx[p]].uri \in failed'[p]
              /\ IF idx[p] < Len(photos[p])
                 THEN pc'[p] = "reach" /\ idx'[p] = idx[p] + 1
                 ELSE pc'[p] = "cursor"]_vars

\* A pass is awaiting the POST of its second item after the first item
\* failed without a POST.
C27_Witness ==
    \E p \in Callers :
        /\ pc[p] = "post"
        /\ idx[p] = 2
        /\ failed[p] = {photos[p][1].uri}
        /\ photos[p][1].uri \notin posted

\* ---- C28
\* The progress events p's running pass has emitted: onProgress({current:
\* i + 1, total: unsyncedPhotos.length, photo}) is called at the top of each
\* iteration, in the same stretch of code as uploadPhoto(photo) (lines
\* 62-71).  The screens pass a callback; autoSync is called without one.
ProgressEvents(p) ==
    IF p = "manual"
    THEN [i \in 1..Len(attempts[p]) |->
             [current |-> i, total |-> Len(photos[p]), photo |-> attempts[p][i]]]
    ELSE <<>>

\* C28: the events of a pass that was given a callback carry current = 1, 2,
\* ... in this order, total = the size of the snapshot and the photos in loop
\* order; when the pass has left its loop there are exactly as many events as
\* photos in the snapshot; and at any time no more events have been emitted
\* than items have been completed (the event of an item follows its
\* completion).
C28_OneEventPerCompletedItem ==
    LET p == "manual"
        events == ProgressEvents(p)
    IN  /\ \A i \in 1..Len(events) :
              /\ events[i].current = i
              /\ events[i].total = Len(photos[p])
              /\ events[i].photo = photos[p][i].uri
        /\ pc[p] \in {"cursor", "cleanRead", "cleanWrite"} =>
              Len(events) = Len(photos[p])
        /\ Len(events) <= successCount[p] + failCount[p]

\* ---- C29
\* The step is p's pass taking its snapshot.
TakesSnapshot(p) == pc[p] = "list" /\ pc'[p] # "list"

\* C29: a photo none of whose upload POSTs has completed (rejected or timed
\* out at every attempt so far) is treated the same after any number of
\* failed attempts: a pass that takes its snapshot while the photo is stored
\* unsynced includes it, and when a pass returns, each such photo of its
\* snapshot was attempted in it, as was every other photo of the snapshot,
\* and is still stored with synced = false.
C29_RejectedRetriedForever ==
    [][\A p \in Callers :
        /\ TakesSnapshot(p) =>
              \A k \in 1..Len(store) :
                  (~store[k].synced /\ store[k].uri \notin posted) =>
                      store[k].uri \in snap'[p]
        /\ Completes(p) =>
              /\ Len(attempts[p]) = Len(photos[p])
              /\ \A u \in snap[p] \ posted' :
                    /\ \E i \in 1..Len(attempts[p]) : attempts[p][i] = u
                    /\ \E k \in 1..Len(store') :
                          store'[k].uri = u /\ ~store'[k].synced]_vars

\* ---- C30
\* C30: the guard is set exactly while a pass is executing; a call is
\* rejected as "already in progress" only in a step during which a pass is
\* executing; and every pass ends, whatever its course (no WiFi or a
\* rejected connectivity query, nothing to sync, any mix of item outcomes,
\* storage errors), which clears the guard.
C30_GuardReleased ==
    /\ [](isSyncing <=> \E p \in Callers : Running(p))
    /\ [][result'.kind = "busy" =>
             \E p \in Callers : Running(p) /\ pc'[p] = pc[p]]_vars
    /\ isSyncing ~> ~isSyncing

\* A pass has just ended, with its guard cleared, after markPhotoAsSynced
\* threw in it.
C30_Witness ==
    /\ ~isSyncing
    /\ result.kind = "done"
    /\ result.failCount > 0
    /\ ~diskOk
    /\ \A p \in Callers : ~Running(p)

\* ------------------------------------------------------------------- C31
\* C31: artifact ids are unique in the store: any two photos of the store,
\* two captures having read the same Date.now() value included, have
\* distinct ids; and the write of markPhotoAsSynced after a successful
\* upload changes the record of the uploaded photo only: every other photo
\* it read is written back as it was read.
C31_UniqueIds ==
    /\ [](\A j, k \in 1..Len(store) : j # k => store[j].id # store[k].id)
    /\ [][\A p \in Callers :
            MarkWrites(p) /\ diskOk =>
                /\ Len(store') = Len(allPhotos[p])
                /\ \A k \in 1..Len(allPhotos[p]) :
                      allPhotos[p][k].uri # photos[p][idx[p]].uri
                          => store'[k] = allPhotos[p][k]]_vars

\* ------------------------------------------------------------------- C32
\* The upload POST of p's current item is issued (uploadPhoto line 151,
\* after the reachability GET resolved).
IssuesPost(p) == pc[p] = "reach" /\ pc'[p] = "post"

\* The POST of photo u completed with 2xx and the markPhotoAsSynced call
\* that follows it has returned.
Confirmed(u) ==
    /\ u \in posted
    /\ \A p \in Callers :
          pc[p] \in {"markRead", "markWrite"} => photos[p][idx[p]].uri # u

\* C32: no duplicate upload after a confirmed sync: once a photo has been
\* uploaded successfully and markPhotoAsSynced for it has completed, no pass
\* issues another upload POST for that photo.
C32_NoDuplicateUpload ==
    [][\A p \in Callers :
          IssuesPost(p) => ~Confirmed(photos[p][idx[p]].uri)]_vars

\* ------------------------------------------------------------------- C33
\* markPhotoAsSynced of p's current item, which follows the item's
\* successful POST, fails on the rejected setItem.
MarkFails(p) == MarkWrites(p) /\ ~diskOk

\* Photo u was uploaded with 2xx and is in the store with synced = false.
UploadedPending(u) == u \in posted /\ InStore(u) /\ ~SyncedIn(store, u)

\* C33: when a photo's upload succeeds and the markPhotoAsSynced that
\* follows fails on a storage write error, the pass does not abort (it goes
\* on to the next item or to updateLastSync), the photo is tallied in
\* failCount and not in successCount, and it stays in the store with
\* synced = false; the next pass that reads the store takes it into its
\* snapshot, so that it is uploaded again.
C33_MarkFailureRetried ==
    /\ [][\A p \in Callers :
            MarkFails(p) =>
                LET u == photos[p][idx[p]].uri IN
                /\ pc'[p] \in {"reach", "cursor"}
                /\ failCount'[p] = failCount[p] + 1
                /\ successCount'[p] = successCount[p]
                /\ u \in failed'[p]
                /\ store' = store
                /\ InStore(u) => u \in posted /\ ~SyncedIn(store', u)]_vars
    /\ [][\A p \in Callers :
            TakesSnapshot(p) /\ diskOk =>
                \A u \in Uris : UploadedPending(u) => u \in snap'[p]]_vars

\* ------------------------------------------------------------------- C34
\* The step is the setItem of a saveSyncedComplaint of call f.
SavesComplaint(f) == fpc[f] = "saveWrite" /\ fpc'[f] # "saveWrite"

C35_NoLostSnapshot ==
    \A k \in Keys :
        lastFetched[k] # 0 =>
            FindById(cache, k) = <<Complaint(k, lastFetched[k])>>

\* ------------------------------------------------------------------- C36
\* The step is the resolution of the probe of p's syncPhotos call.
ProbeSettles(p) == pc[p] = "wifi" /\ pc'[p] # "wifi"

\* The step is the resolution of the probe of the timer's autoSync call.
AutoProbeSettles == tpc = "autoSync" /\ tpc' = "idle"

\* C36: the connectivity probe reports WiFi only when the OS state is
\* connected and of type WiFi.  On a metered connection, on no connection,
\* on a WiFi network that is not connected and when the OS query rejects,
\* syncPhotos returns its no-WiFi failure and ends the call, autoSync returns
\* its failure result without calling syncPhotos, and in both cases no
\* upload is made, the store is not written and nothing is thrown.
C36_NotWiFiAborts ==
    /\ [](isConnectedToWiFi =>
            net # "ERROR" /\ IsConnected(net) /\ NetworkType(net) = "WIFI")
    /\ [][\A p \in Callers :
            (ProbeSettles(p) /\ net \in {"CELLULAR", "NONE", "WIFI_DOWN", "ERROR"}) =>
                /\ result' = Result(p, "nowifi", 0, 0)
                /\ pc'[p] = "idle"
                /\ ~isSyncing'
                /\ posted' = posted /\ store' = store
                /\ lastSync' = lastSync]_vars
    /\ [][(AutoProbeSettles /\ net \in {"CELLULAR", "NONE", "WIFI_DOWN", "ERROR"}) =>
            /\ result' = Result("auto", "autoNoWifi", 0, 0)
            /\ pc' = pc
            /\ isSyncing' = isSyncing
            /\ posted' = posted /\ store' = store
            /\ lastSync' = lastSync]_vars

\* autoSync has just returned its failure on a metered connection while a
\* photo is pending.
C36_Witness ==
    /\ result = Result("auto", "autoNoWifi", 0, 0)
    /\ net = "CELLULAR"
    /\ HasPending

====
